---------------------------- MODULE Spec2Model ----------------------------
(***************************************************************************)
(* Model of the Pixiv Fanbox connector of Cultured-Downloader-CLI:         *)
(*   getCreatorsPosts -> getFanboxPosts (list phase, bounded pool)         *)
(*   getPostDetails (detail phase, bounded pool, aggregation)              *)
(* and of the helpers of utils/useful.go they rely on.                     *)
(*                                                                         *)
(* Go strings are modelled as sequences of one-character strings, so that  *)
(* parsing (strconv.Atoi, strings.SplitN) is computed and not assumed.     *)
(***************************************************************************)
EXTENDS Integers, Sequences, FiniteSets, TLC

(***************************************************************************)
(* Bounds of the model.                                                    *)
(***************************************************************************)
\* longest page-spec string given to GetMinMaxFromStr in SpecPure
MaxStrLen == 4
\* most creators in pf.CreatorIds / page specs in pf.CreatorPageNums
MaxCreators == 1
\* most post IDs in pf.PostIds before getCreatorsPosts runs
MaxInitPosts == 1
\* most paginated URLs a creator's discovery request returns
MaxPages == 2
\* largest page number N, M written out as "N" or "N-M" in SpecPure
MaxNum == 22
\* longest slice given to RemoveSliceDuplicates and to KemonoDl.RemoveDuplicates
MaxSliceLen == 3
\* most creators in pf.CreatorIds when getCreatorsPosts is run alone (SpecList)
MaxListCreators == 2
\* the longest slice of URLs or page numbers a KemonoDl is given
MaxUrls == 2

(***************************************************************************)
(* Program constants.                                                      *)
(***************************************************************************)
\* utils.MAX_API_CALLS (utils/constants.go): the per-connector maximum of
\* concurrent API calls, read at part_001:27 and part_001:228.  It is set
\* outside the files modelled here; 2 is the smallest maximum under which
\* tasks both share the semaphore and wait for it within the bounds above.
MAX_API_CALLS == 2

\* the error classes of utils/constants.go, by name
CONNECTION_ERROR == "CONNECTION_ERROR"
RESPONSE_ERROR == "RESPONSE_ERROR"
JSON_ERROR == "JSON_ERROR"
UNEXPECTED_ERROR == "UNEXPECTED_ERROR"
DEV_ERROR == "DEV_ERROR"

\* a Go error value: nil, or an error with the class its message carries
NilErr == [code |-> "nil", what |-> ""]
Errorf(code, what) == [code |-> code, what |-> what]

(***************************************************************************)
(* Strings.                                                                *)
(***************************************************************************)
Digits == <<"0", "1", "2", "3", "4", "5", "6", "7", "8", "9">>
Alphabet == {"0", "1", "2", "-", "a"}

RECURSIVE SeqsUpTo(_, _)
SeqsUpTo(S, n) ==
    IF n = 0 THEN {<<>>}
    ELSE LET shorter == SeqsUpTo(S, n - 1)
         IN  shorter \cup {Append(s, x) : s \in {t \in shorter : Len(t) = n - 1}, x \in S}

IsDigit(c) == \E d \in 1..10 : Digits[d] = c
DigitVal(c) == (CHOOSE d \in 1..10 : Digits[d] = c) - 1

\* strings.Contains(s, "-")
Contains(s, c) == \E i \in 1..Len(s) : s[i] = c

\* strings.SplitN(s, "-", 2) for a string that contains the separator:
\* the text before the first separator and all the text after it
SplitN2(s, c) ==
    LET i == CHOOSE k \in 1..Len(s) : s[k] = c /\ \A j \in 1..(k - 1) : s[j] # c
    IN  <<SubSeq(s, 1, i - 1), SubSeq(s, i + 1, Len(s))>>

RECURSIVE DigitsVal(_)
DigitsVal(s) ==
    IF s = <<>> THEN 0
    ELSE 10 * DigitsVal(SubSeq(s, 1, Len(s) - 1)) + DigitVal(s[Len(s)])

\* strconv.Atoi: an optional sign, then one or more decimal digits
Atoi(s) ==
    LET signed == Len(s) > 0 /\ s[1] \in {"-", "+"}
        body == IF signed THEN SubSeq(s, 2, Len(s)) ELSE s
        ok == Len(body) > 0 /\ \A i \in 1..Len(body) : IsDigit(body[i])
    IN  IF ~ok THEN [val |-> 0, ok |-> FALSE]
        ELSE [val |-> IF signed /\ s[1] = "-" THEN 0 - DigitsVal(body) ELSE DigitsVal(body),
              ok |-> TRUE]

GMMResult(min, max, hasMax, err) == [min |-> min, max |-> max, hasMax |-> hasMax, err |-> err]

GMMNoSwap(lo, hi) == <<lo, hi>>
\* useful.go:332-334
GMMOrder(lo, hi) == IF lo > hi THEN <<hi, lo>> ELSE <<lo, hi>>

\* utils.GetMinMaxFromStr
GetMinMaxFromStr(numStr) ==
    IF numStr = <<>> THEN GMMResult(1, 1, FALSE, NilErr)
    ELSE IF Contains(numStr, "-")
    THEN LET nums == SplitN2(numStr, "-")
             lo == Atoi(nums[1])
             hi == Atoi(nums[2])
         IN  IF ~lo.ok THEN GMMResult(-1, -1, FALSE, Errorf(UNEXPECTED_ERROR, "min page number"))
             ELSE IF ~hi.ok THEN GMMResult(-1, -1, FALSE, Errorf(UNEXPECTED_ERROR, "max page number"))
             ELSE LET o == GMMOrder(lo.val, hi.val)
                  IN  GMMResult(o[1], o[2], TRUE, NilErr)
    ELSE LET n == Atoi(numStr)
         IN  IF ~n.ok THEN GMMResult(-1, -1, FALSE, Errorf(UNEXPECTED_ERROR, "page number"))
             ELSE GMMResult(n.val, n.val, TRUE, NilErr)

\* a deduplication that deletes in place while it ranges over the slice, and
\* so never looks at the element that follows a deleted one
RECURSIVE DeleteWhileRanging(_, _, _)
DeleteWhileRanging(rest, out, skip) ==
    IF rest = <<>> THEN out
    ELSE IF skip THEN DeleteWhileRanging(Tail(rest), Append(out, Head(rest)), FALSE)
    ELSE IF \E i \in 1..Len(out) : out[i] = Head(rest)
         THEN DeleteWhileRanging(Tail(rest), out, TRUE)
         ELSE DeleteWhileRanging(Tail(rest), Append(out, Head(rest)), FALSE)
RemoveSliceDuplicatesInPlace(s) == DeleteWhileRanging(s, <<>>, FALSE)

\* utils.RemoveSliceDuplicates
RECURSIVE RemoveSliceDuplicates(_)
RemoveSliceDuplicates(s) ==
    IF s = <<>> THEN <<>>
    ELSE LET init == RemoveSliceDuplicates(SubSeq(s, 1, Len(s) - 1))
             v == s[Len(s)]
         IN  IF \E i \in 1..Len(init) : init[i] = v THEN init ELSE Append(init, v)

\* both slices deduplicated on their own
RemoveDuplicateIdAndPageNumApart(idSlice, pageSlice_) ==
    <<RemoveSliceDuplicates(idSlice), RemoveSliceDuplicates(pageSlice_)>>

\* useful.go:394-400: the loop over idSlice, with its seen map
RECURSIVE IdPageLoop(_, _, _, _, _, _)
IdPageLoop(idSlice, pageSlice_, idx, seen, idResult, pageResult) ==
    IF idx > Len(idSlice) THEN <<idResult, pageResult>>
    ELSE IF idSlice[idx] \in seen
    THEN IdPageLoop(idSlice, pageSlice_, idx + 1, seen, idResult, pageResult)
    ELSE IdPageLoop(idSlice, pageSlice_, idx + 1, seen \cup {idSlice[idx]},
                    Append(idResult, idSlice[idx]), Append(pageResult, pageSlice_[idx]))

\* utils.RemoveDuplicateIdAndPageNum
RemoveDuplicateIdAndPageNum(idSlice, pageSlice_) ==
    IdPageLoop(idSlice, pageSlice_, 1, {}, <<>>, <<>>)

(***************************************************************************)
(* KemonoDl (part_000:42-109).                                             *)
(***************************************************************************)
\* models.KemonoCreatorToDl and models.KemonoPostToDl, as ProcessCreatorUrls
\* and ProcessPostUrls build them from the matched URL
KemonoCreatorToDl(service, creatorId, pageNum) ==
    [Service |-> service, CreatorId |-> creatorId, PageNum |-> pageNum]
KemonoPostToDl(service, creatorId, postId) ==
    [Service |-> service, CreatorId |-> creatorId, PostId |-> postId]

\* a post keyed without its creator
PostKeyNoCreator(post) == post.Service \o <<"/">> \o post.PostId
\* part_000:86: fmt.Sprintf("%s/%s", creator.Service, creator.CreatorId)
CreatorKey(creator) == creator.Service \o <<"/">> \o creator.CreatorId
\* part_000:101: fmt.Sprintf("%s/%s/%s", post.Service, post.CreatorId, post.PostId)
PostKey(post) == post.Service \o <<"/">> \o post.CreatorId \o <<"/">> \o post.PostId

\* part_000:85-92: the loop over k.CreatorsToDl, with its seen map
RECURSIVE CreatorLoop(_, _, _)
CreatorLoop(rest, seen, newCreatorSlice) ==
    IF rest = <<>> THEN newCreatorSlice
    ELSE LET key == CreatorKey(Head(rest))
         IN  IF key \in seen THEN CreatorLoop(Tail(rest), seen, newCreatorSlice)
             ELSE CreatorLoop(Tail(rest), seen \cup {key}, Append(newCreatorSlice, Head(rest)))

\* part_000:100-107: the loop over k.PostsToDl, with its seen map
RECURSIVE PostLoop(_, _, _)
PostLoop(rest, seen, newPostSlice) ==
    IF rest = <<>> THEN newPostSlice
    ELSE LET key == PostKey(Head(rest))
         IN  IF key \in seen THEN PostLoop(Tail(rest), seen, newPostSlice)
             ELSE PostLoop(Tail(rest), seen \cup {key}, Append(newPostSlice, Head(rest)))

\* (k *KemonoDl).RemoveDuplicates
RemoveDuplicates(k) ==
    LET creators == IF Len(k.CreatorsToDl) > 0
                    THEN CreatorLoop(k.CreatorsToDl, {}, <<>>)
                    ELSE k.CreatorsToDl
    IN  IF Len(k.PostsToDl) = 0
        THEN [k EXCEPT !.CreatorsToDl = creators]
        ELSE [k EXCEPT !.CreatorsToDl = creators,
                       !.PostsToDl = PostLoop(k.PostsToDl, {}, <<>>)]


(***************************************************************************)
(* The environment: what the Pixiv Fanbox API may answer.                  *)
(***************************************************************************)
\* IDs the user may pass in pf.PostIds and pf.CreatorIds
InitPostIdSet == {"p1"}
CreatorNames == <<"c1", "c2", "c3">>
CreatorIdSeqs == {SubSeq(CreatorNames, 1, n) : n \in 0..3}
\* page specs the user may pass in pf.CreatorPageNums
PageSpecs == {<<>>, <<"1">>, <<"2", "-", "3">>, <<"a">>}
\* page specs when getCreatorsPosts is run alone: the first page, or a spec
\* GetMinMaxFromStr cannot parse
ListPageSpecs == {<<"1">>, <<"a">>}
\* The catalogue the API serves.  resJson.Body.Items of listing page `page`
\* (part_001:295), as post IDs: a post may be listed on two pages (p1 is on
\* pages 1 and 2), p2 is on no page but 1 and 3, p3 on none but 2 and 3.
PageItems(page) ==
    CASE page = 1 -> <<"p1", "p2">>
      [] page = 2 -> <<"p3", "p1">>
      [] OTHER -> <<"p3", "p2">>
\* The direct URLs and the Google Drive URLs processFanboxPost extracts from
\* a post (part_001:134): two posts may hold the same URL.
PostUrls(postId) ==
    CASE postId = "p1" -> <<"u1">>
      [] postId = "p2" -> <<"u1", "u2">>
      [] OTHER -> <<>>
PostGdriveLinks(postId) ==
    CASE postId = "p1" -> <<"g1">>
      [] postId = "p3" -> <<"g1">>
      [] OTHER -> <<>>

Min(a, b) == IF a < b THEN a ELSE b

\* the strings a caller may pass to RemoveSliceDuplicates
SliceIds == {"p1", "p2", "p3"}
\* services and IDs as the URL regexes of part_000:17-39 match them
Patreon == <<"p", "a", "t", "r", "e", "o", "n">>
Fanbox == <<"f", "a", "n", "b", "o", "x">>
\* the creators and posts the user's URLs may name: some share a key, some
\* differ in one field only, two posts differ only in where the ID digits
\* are split between creator and post
KemonoCreators ==
    {KemonoCreatorToDl(Patreon, <<"a", "1">>, <<>>),
     KemonoCreatorToDl(Patreon, <<"a", "1">>, <<"1">>),
     KemonoCreatorToDl(Patreon, <<"a">>, <<>>),
     KemonoCreatorToDl(Fanbox, <<"a", "1">>, <<>>)}
KemonoPosts ==
    {KemonoPostToDl(Patreon, <<"a", "1">>, <<"1">>),
     KemonoPostToDl(Patreon, <<"a">>, <<"1", "1">>),
     KemonoPostToDl(Patreon, <<"a">>, <<"1">>),
     KemonoPostToDl(Fanbox, <<"a", "1">>, <<"1">>)}
NoKemono == [CreatorUrls |-> <<>>, CreatorPageNums |-> <<>>, CreatorsToDl |-> <<>>,
             PostUrls |-> <<>>, PostsToDl |-> <<>>]
\* a KemonoDlOptions with nothing set (part_000:158-167)
NoOptions == [SessionCookieId |-> "", SessionCookies |-> <<>>,
              DlGdrive |-> FALSE, GdriveClient |-> "nil"]

(***************************************************************************)
(* The arguments of Kemono Party (part_000:16-77, 111-186).  A URL is the  *)
(* sequence of the parts that its "/" separate after the scheme and host;  *)
(* the service, the creator ID and the post ID are strings of characters.  *)
(***************************************************************************)
KEMONO_URL == "https://kemono.party"
KemonoCreatorUrl(service, creatorId) == <<KEMONO_URL, service, "user", creatorId>>
KemonoPostUrl(service, creatorId, postId) ==
    <<KEMONO_URL, service, "user", creatorId, "post", postId>>

\* part_000:17: patreon|fanbox|gumroad|subscribestar|dlsite|fantia|boosty
KemonoServices ==
    {Patreon, Fanbox,
     <<"g", "u", "m", "r", "o", "a", "d">>,
     <<"s", "u", "b", "s", "c", "r", "i", "b", "e", "s", "t", "a", "r">>,
     <<"d", "l", "s", "i", "t", "e">>,
     <<"f", "a", "n", "t", "i", "a">>,
     <<"b", "o", "o", "s", "t", "y">>}
Letters ==
    {"a", "b", "c", "d", "e", "f", "g", "h", "i", "j", "k", "l", "m",
     "n", "o", "p", "q", "r", "s", "t", "u", "v", "w", "x", "y", "z",
     "A", "B", "C", "D", "E", "F", "G", "H", "I", "J", "K", "L", "M",
     "N", "O", "P", "Q", "R", "S", "T", "U", "V", "W", "X", "Y", "Z"}
\* [\w-]
IsWordOrHyphen(c) == IsDigit(c) \/ c \in Letters \/ c = "_" \/ c = "-"

\* BASE_REGEX_STR matches the first four parts of url
BASE_REGEX_STR(url) ==
    /\ Len(url) >= 4
    /\ url[1] = KEMONO_URL
    /\ url[2] \in KemonoServices
    /\ url[3] = "user"
    /\ url[4] # <<>>
    /\ \A i \in 1..Len(url[4]) : IsWordOrHyphen(url[4][i])
\* what CREATOR_URL_REGEX matches: ^BASE_REGEX_STR$
CreatorUrlMatch(url) == Len(url) = 4 /\ BASE_REGEX_STR(url)
\* what POST_URL_REGEX matches: ^BASE_REGEX_STR/post/(\d+)$
PostUrlMatch(url) ==
    /\ Len(url) = 6
    /\ BASE_REGEX_STR(url)
    /\ url[5] = "post"
    /\ url[6] # <<>>
    /\ \A i \in 1..Len(url[6]) : IsDigit(url[6][i])

\* the indexes of the groups in what FindStringSubmatch returns, whose
\* first element is the whole match (a sequence starts at 1, a Go slice at 0)
CREATOR_URL_REGEX_SERVICE_INDEX == 2
CREATOR_URL_REGEX_CREATOR_ID_INDEX == 3
POST_URL_REGEX_SERVICE_INDEX == 2
POST_URL_REGEX_CREATOR_ID_INDEX == 3
POST_URL_REGEX_POST_ID_INDEX == 4
\* FindStringSubmatch: the match and its groups, or nil
CreatorUrlSubmatch(url) ==
    IF CreatorUrlMatch(url) THEN <<url, url[2], url[4]>> ELSE <<>>
PostUrlSubmatch(url) ==
    IF PostUrlMatch(url) THEN <<url, url[2], url[4], url[6]>> ELSE <<>>

\* a positive number without a sign
IsPageNum(t) == t # <<>> /\ t[1] # "0" /\ \A i \in 1..Len(t) : IsDigit(t[i])
\* what PAGE_NUM_REGEX matches: "", "N" or "N-M"
PageNumMatch(str) ==
    \/ str = <<>>
    \/ IsPageNum(str)
    \/ \E k \in 2..(Len(str) - 1) :
          /\ str[k] = "-"
          /\ IsPageNum(SubSeq(str, 1, k - 1))
          /\ IsPageNum(SubSeq(str, k + 1, Len(str)))

\* the compiled patterns
PAGE_NUM_REGEX == "PAGE_NUM_REGEX"
CREATOR_URL_REGEX == "CREATOR_URL_REGEX"
POST_URL_REGEX == "POST_URL_REGEX"
\* regex.MatchString(str)
MatchString(regex, str) ==
    CASE regex = PAGE_NUM_REGEX -> PageNumMatch(str)
      [] regex = CREATOR_URL_REGEX -> CreatorUrlMatch(str)
      [] regex = POST_URL_REGEX -> PostUrlMatch(str)

\* only the first string is matched
SliceMatchesRegexFirstOnly(regex, slice_) ==
    IF slice_ = <<>> \/ MatchString(regex, slice_[1])
    THEN [valid |-> TRUE, outlier |-> ""]
    ELSE [valid |-> FALSE, outlier |-> slice_[1]]

\* utils.SliceMatchesRegex: whether all match, and the first that does not
SliceMatchesRegex(regex, slice_) ==
    LET outliers == {i \in 1..Len(slice_) : ~MatchString(regex, slice_[i])}
    IN  IF outliers = {}
        THEN [valid |-> TRUE, outlier |-> ""]
        ELSE [valid |-> FALSE,
              outlier |-> slice_[CHOOSE i \in outliers : \A j \in outliers : i <= j]]

\* utils.ValidatePageNumInput: whether it returns; it exits otherwise
ValidatePageNumInput(baseSliceLen, pageNums) ==
    IF baseSliceLen # Len(pageNums) THEN FALSE
    ELSE SliceMatchesRegex(PAGE_NUM_REGEX, pageNums).valid

\* ProcessCreatorUrls: the creators, unless an index is out of range
ProcessCreatorUrls(creatorUrls, pageNums) ==
    LET matched(i) == CreatorUrlSubmatch(creatorUrls[i])
        inRange(i) == /\ CREATOR_URL_REGEX_SERVICE_INDEX <= Len(matched(i))
                      /\ CREATOR_URL_REGEX_CREATOR_ID_INDEX <= Len(matched(i))
                      /\ i <= Len(pageNums)
    IN  IF \A i \in 1..Len(creatorUrls) : inRange(i)
        THEN [panicked |-> FALSE,
              creatorsToDl |-> [i \in 1..Len(creatorUrls) |->
                  KemonoCreatorToDl(matched(i)[CREATOR_URL_REGEX_SERVICE_INDEX],
                                    matched(i)[CREATOR_URL_REGEX_CREATOR_ID_INDEX],
                                    pageNums[i])]]
        ELSE [panicked |-> TRUE, creatorsToDl |-> <<>>]

\* ProcessPostUrls: the posts, unless an index is out of range
ProcessPostUrls(postUrls) ==
    LET matched(i) == PostUrlSubmatch(postUrls[i])
        inRange(i) == /\ POST_URL_REGEX_SERVICE_INDEX <= Len(matched(i))
                      /\ POST_URL_REGEX_CREATOR_ID_INDEX <= Len(matched(i))
                      /\ POST_URL_REGEX_POST_ID_INDEX <= Len(matched(i))
    IN  IF \A i \in 1..Len(postUrls) : inRange(i)
        THEN [panicked |-> FALSE,
              postsToDl |-> [i \in 1..Len(postUrls) |->
                  KemonoPostToDl(matched(i)[POST_URL_REGEX_SERVICE_INDEX],
                                 matched(i)[POST_URL_REGEX_CREATOR_ID_INDEX],
                                 matched(i)[POST_URL_REGEX_POST_ID_INDEX])]]
        ELSE [panicked |-> TRUE, postsToDl |-> <<>>]

\* what the user may pass as creator URLs: two creators, and a service that
\* Kemono Party does not have
CreatorUrlInputs ==
    {KemonoCreatorUrl(Patreon, <<"a", "1">>),
     KemonoCreatorUrl(Fanbox, <<"a", "-">>),
     KemonoCreatorUrl(<<"x">>, <<"a">>)}
\* what the user may pass as page numbers: all pages, page 2, and page 0
PageNumInputs == {<<>>, <<"2">>, <<"0">>}
\* what the user may pass as post URLs: two posts, a post ID that is not a
\* number, and the URL of a creator
PostUrlInputs ==
    {KemonoPostUrl(Patreon, <<"a", "1">>, <<"1">>),
     KemonoPostUrl(Fanbox, <<"a", "-">>, <<"1", "2">>),
     KemonoPostUrl(Patreon, <<"a">>, <<"a">>),
     KemonoCreatorUrl(Patreon, <<"a", "1">>)}
\* api.VerifyAndGetCookie returns the cookie of a session ID that the site
\* accepts, and ends the process for one that it does not accept
VerifyAndGetCookie(sessionCookieId) ==
    {[exits |-> FALSE, cookie |-> sessionCookieId], [exits |-> TRUE, cookie |-> ""]}

\* the IDs and page specs a caller may pass to RemoveDuplicateIdAndPageNum
IdPagePairs == {<<id, page>> : id \in {"c1", "c2"}, page \in {<<>>, <<"1">>, <<"2">>}}

(***************************************************************************)
(* Channels, as Go's buffered channels: a capacity, a buffer, a closed     *)
(* flag.  The semaphore `queue` carries struct{}{} values, so only its     *)
(* length is kept.                                                         *)
(***************************************************************************)
MakeChan(n) == [cap |-> n, buf |-> <<>>, closed |-> FALSE]
MakeQueue(n) == [cap |-> n, len |-> 0, closed |-> FALSE]
NoChan == MakeChan(0)
NoQueue == MakeQueue(0)

\* spinner.New(..., total): not started, nothing counted
NewProgress(total) == [total |-> total, started |-> FALSE, count |-> 0,
                       stopped |-> FALSE, hasErr |-> FALSE]

\* one goroutine of a pool: a page task of getFanboxPosts (part_001:244-280)
\* or a post task of getPostDetails (part_001:60-97); acquired, released and
\* requests count its semaphore sends, semaphore receives and HTTP calls
NoOut == [kind |-> "none"]
NewTask(fn, page, postId) ==
    [fn |-> fn, page |-> page, postId |-> postId, pc |-> "start", out |-> NoOut,
     acquired |-> 0, released |-> 0, requests |-> 0]

\* the locals of getFanboxPosts; logged counts the utils.LogError calls of its
\* page tasks (part_001:263), received the resStructs read from resChan
FpLocals == [creatorId |-> "", pageNum |-> <<>>, paginatedUrls |-> 0,
             minPage |-> 0, maxPage |-> 0, hasMax |-> FALSE, idx |-> 0,
             errSlice |-> <<>>, postIds |-> <<>>, logged |-> 0, received |-> 0,
             ret |-> [postIds |-> <<>>, err |-> NilErr]]

\* the locals of getCreatorsPosts.  Two fields record its call for as long
\* as it is the last call made: before is pf.PostIds as the call found it,
\* pageFailed that a page request or a page's JSON failed in some
\* getFanboxPosts call so far, which that call logs and does not return
\* (part_001:259-264, 300-303)
GcpLocals == [idx |-> 0, errSlice |-> <<>>, pageFailed |-> FALSE, before |-> <<>>]

\* the locals of getPostDetails; logged holds what utils.LogErrors read from
\* errChan (part_001:107)
PdLocals == [idx |-> 0, logged |-> <<>>, errSlice |-> <<>>,
             urlsMap |-> <<>>, gdriveUrls |-> <<>>]

VARIABLES
    pc,               \* where the driver goroutine is
    panic,            \* "none", or the panic that ended the process
    CreatorIds,       \* pf.CreatorIds
    CreatorPageNums,  \* pf.CreatorPageNums
    PostIds,          \* pf.PostIds
    gcp,              \* getCreatorsPosts: its locals
    fp,               \* getFanboxPosts: its locals
    pd,               \* getPostDetails: its locals
    queue,            \* the semaphore channel of the running pool
    resChan,          \* the result channel of the running pool
    errChan,          \* the error channel of getPostDetails
    wg,               \* the sync.WaitGroup counter of the running pool
    tasks,            \* the goroutines of the running pool, in spawn order
    progress,         \* the three spinners
    numStr,           \* SpecPure: the argument of GetMinMaxFromStr
    gmm,              \* SpecPure: what GetMinMaxFromStr returned
    slice,            \* SpecDedup: the slice RemoveSliceDuplicates is applied to
    kemono,           \* SpecDedup, SpecKemono: the KemonoDl
    pageSlice,        \* SpecDedup: the pages RemoveDuplicateIdAndPageNum is given
    options,          \* SpecKemono: the KemonoDlOptions
    calls             \* SpecDedup: the input, then the value after each call

vars == <<pc, panic, CreatorIds, CreatorPageNums, PostIds, gcp, fp, pd, queue,
          resChan, errChan, wg, tasks, progress, numStr, gmm, slice, kemono, pageSlice,
          options, calls>>

pureVars == <<numStr, gmm, slice, kemono, pageSlice, options, calls>>
dedupVars == <<slice, kemono, pageSlice, options, calls>>
inputVars == <<CreatorIds, CreatorPageNums>>
poolVars == <<queue, resChan, errChan, wg, tasks>>

NoGmm == [called |-> FALSE, res |-> GMMResult(0, 0, FALSE, NilErr)]

InitLocals ==
    /\ pc = "gcp_start"
    /\ panic = "none"
    /\ gcp = GcpLocals
    /\ fp = FpLocals
    /\ pd = PdLocals
    /\ queue = NoQueue
    /\ resChan = NoChan
    /\ errChan = NoChan
    /\ wg = 0
    /\ tasks = <<>>
    /\ progress = [gcp |-> NewProgress(0), req |-> NewProgress(0), json |-> NewProgress(0)]

Init ==
    /\ InitLocals
    /\ CreatorIds \in {s \in CreatorIdSeqs : Len(s) <= MaxCreators}
    /\ CreatorPageNums \in SeqsUpTo(PageSpecs, MaxCreators)
    /\ PostIds \in SeqsUpTo(InitPostIdSet, MaxInitPosts)
    /\ numStr = <<>>
    /\ gmm = NoGmm
    /\ slice = <<>> /\ kemono = NoKemono /\ calls = <<>>
    /\ pageSlice = <<>> /\ options = NoOptions

Running == panic = "none"


(***************************************************************************)
(* getCreatorsPosts (part_001:307-360), the driver of the list phase.      *)
(***************************************************************************)
\* the length check made after the spinner was created and started
getCreatorsPosts_StartThenCheck ==
    /\ Running /\ pc = "gcp_start"
    /\ progress' = [progress EXCEPT !.gcp =
                       [NewProgress(Len(CreatorIds)) EXCEPT !.started = TRUE]]
    /\ IF Len(CreatorIds) # Len(CreatorPageNums)
       THEN /\ panic' = DEV_ERROR
            /\ pc' = "panicked"
            /\ UNCHANGED gcp
       ELSE /\ gcp' = [GcpLocals EXCEPT !.idx = 1, !.before = PostIds]
            /\ pc' = "gcp_loop"
            /\ UNCHANGED panic
    /\ UNCHANGED <<inputVars, PostIds, fp, pd, poolVars, pureVars>>

\* part_001:308-337: the length check, then the spinner is created and started
getCreatorsPosts_Start ==
    /\ Running /\ pc = "gcp_start"
    /\ IF Len(CreatorIds) # Len(CreatorPageNums)
       THEN /\ panic' = DEV_ERROR
            /\ pc' = "panicked"
            /\ UNCHANGED <<gcp, progress>>
       ELSE /\ gcp' = [GcpLocals EXCEPT !.idx = 1, !.before = PostIds]
            /\ progress' = [progress EXCEPT !.gcp =
                               [NewProgress(Len(CreatorIds)) EXCEPT !.started = TRUE]]
            /\ pc' = "gcp_loop"
            /\ UNCHANGED panic
    /\ UNCHANGED <<inputVars, PostIds, fp, pd, poolVars, pureVars>>

\* part_001:338-344: the next creator is handed to getFanboxPosts
getCreatorsPosts_Call ==
    /\ Running /\ pc = "gcp_loop"
    /\ gcp.idx <= Len(CreatorIds)
    /\ fp' = [FpLocals EXCEPT !.creatorId = CreatorIds[gcp.idx],
                              !.pageNum = CreatorPageNums[gcp.idx]]
    /\ pc' = "fp_discover"
    /\ UNCHANGED <<panic, inputVars, PostIds, gcp, pd, poolVars, progress, pureVars>>

\* a loop that gives up at the first creator whose listing failed
getCreatorsPosts_CollectOrAbort ==
    /\ Running /\ pc = "gcp_ret"
    /\ IF fp.ret.err # NilErr
       THEN /\ gcp' = [gcp EXCEPT !.errSlice = Append(@, fp.ret.err),
                                  !.idx = Len(CreatorIds) + 1]
            /\ UNCHANGED <<PostIds, progress>>
       ELSE /\ PostIds' = PostIds \o fp.ret.postIds
            /\ gcp' = [gcp EXCEPT !.idx = @ + 1]
            /\ progress' = [progress EXCEPT !.gcp.count = @ + 1]
    /\ fp' = FpLocals
    /\ pc' = "gcp_loop"
    /\ UNCHANGED <<panic, inputVars, pd, poolVars, pureVars>>

\* a loop that assigns the retrieved post IDs where it should append them
getCreatorsPosts_CollectAssign ==
    /\ Running /\ pc = "gcp_ret"
    /\ IF fp.ret.err # NilErr
       THEN /\ gcp' = [gcp EXCEPT !.errSlice = Append(@, fp.ret.err), !.idx = @ + 1]
            /\ UNCHANGED PostIds
       ELSE /\ PostIds' = fp.ret.postIds
            /\ gcp' = [gcp EXCEPT !.idx = @ + 1]
    /\ progress' = [progress EXCEPT !.gcp.count = @ + 1]
    /\ fp' = FpLocals
    /\ pc' = "gcp_loop"
    /\ UNCHANGED <<panic, inputVars, pd, poolVars, pureVars>>

\* part_001:345-350: the error or the post IDs of one creator are kept
getCreatorsPosts_Collect ==
    /\ Running /\ pc = "gcp_ret"
    /\ IF fp.ret.err # NilErr
       THEN /\ gcp' = [gcp EXCEPT !.errSlice = Append(@, fp.ret.err), !.idx = @ + 1]
            /\ UNCHANGED PostIds
       ELSE /\ PostIds' = PostIds \o fp.ret.postIds
            /\ gcp' = [gcp EXCEPT !.idx = @ + 1]
    /\ progress' = [progress EXCEPT !.gcp.count = @ + 1]
    /\ fp' = FpLocals
    /\ pc' = "gcp_loop"
    /\ UNCHANGED <<panic, inputVars, pd, poolVars, pureVars>>

\* part_001:353-359: the spinner is stopped and pf.PostIds deduplicated
getCreatorsPosts_Finish ==
    /\ Running /\ pc = "gcp_loop"
    /\ gcp.idx > Len(CreatorIds)
    /\ progress' = [progress EXCEPT !.gcp.stopped = TRUE,
                                    !.gcp.hasErr = (Len(gcp.errSlice) > 0)]
    /\ PostIds' = RemoveSliceDuplicates(PostIds)
    /\ gcp' = [GcpLocals EXCEPT !.pageFailed = gcp.pageFailed, !.before = gcp.before]
    /\ pc' = "pd_start"
    /\ UNCHANGED <<panic, inputVars, fp, pd, poolVars, pureVars>>

(***************************************************************************)
(* getFanboxPosts (part_001:164-304): one creator's listing.               *)
(***************************************************************************)
\* the outcomes of the discovery request and of reading its body
DiscoverOutcomes ==
    {[kind |-> k, pages |-> 0] : k \in {"connErr", "non200", "readErr", "jsonErr"}}
        \cup {[kind |-> "ok", pages |-> n] : n \in 0..MaxPages}

\* part_001:181-219: the error getFanboxPosts returns for a failed discovery
DiscoverError(o) ==
    CASE o.kind = "connErr" -> Errorf(CONNECTION_ERROR, "creator's posts")
      [] o.kind = "non200" -> Errorf(RESPONSE_ERROR, "creator's posts")
      [] o.kind = "readErr" -> Errorf(RESPONSE_ERROR, "read response body")
      [] o.kind = "jsonErr" -> Errorf(JSON_ERROR, "unmarshal creator's pages")
      [] OTHER -> NilErr

\* part_001:228-231 and 29-31: maxConcurrency
MaxConcurrency(n) == IF n < MAX_API_CALLS THEN n ELSE MAX_API_CALLS

\* part_001:165-233: the discovery request, the page range, the pool's channels
getFanboxPosts_Discover ==
    /\ Running /\ pc = "fp_discover"
    /\ \E o \in DiscoverOutcomes :
         LET r == GetMinMaxFromStr(fp.pageNum)
         IN  IF o.kind # "ok"
             THEN /\ fp' = [FpLocals EXCEPT !.ret = [postIds |-> <<>>, err |-> DiscoverError(o)]]
                  /\ pc' = "gcp_ret"
                  /\ UNCHANGED poolVars
             ELSE IF r.err # NilErr
             THEN /\ fp' = [FpLocals EXCEPT !.ret = [postIds |-> <<>>, err |-> r.err]]
                  /\ pc' = "gcp_ret"
                  /\ UNCHANGED poolVars
             ELSE /\ fp' = [fp EXCEPT !.paginatedUrls = o.pages, !.minPage = r.min,
                                      !.maxPage = r.max, !.hasMax = r.hasMax, !.idx = 0]
                  /\ queue' = MakeQueue(MaxConcurrency(o.pages))
                  /\ resChan' = MakeChan(o.pages)
                  /\ errChan' = NoChan
                  /\ wg' = 0
                  /\ tasks' = <<>>
                  /\ pc' = "fp_spawn"
    /\ UNCHANGED <<panic, inputVars, PostIds, gcp, pd, progress, pureVars>>

PageNeverSkipped(curPage) == FALSE
PageSkippedOffByOne(curPage) == curPage <= fp.minPage
\* part_001:236-241: is page curPage one the loop spawns a task for
PageSkipped(curPage) == curPage < fp.minPage
PageBreaks(curPage) == fp.hasMax /\ curPage > fp.maxPage

\* part_001:234-281: one iteration of the loop over paginatedUrls
getFanboxPosts_Spawn ==
    /\ Running /\ pc = "fp_spawn"
    /\ LET curPage == fp.idx + 1
       IN  IF fp.idx >= fp.paginatedUrls \/ (~PageSkipped(curPage) /\ PageBreaks(curPage))
           THEN /\ pc' = "fp_wait"
                /\ UNCHANGED <<fp, wg, tasks>>
           ELSE IF PageSkipped(curPage)
           THEN /\ fp' = [fp EXCEPT !.idx = @ + 1]
                /\ UNCHANGED <<pc, wg, tasks>>
           ELSE /\ wg' = wg + 1
                /\ tasks' = Append(tasks, NewTask("page", curPage, ""))
                /\ fp' = [fp EXCEPT !.idx = @ + 1]
                /\ UNCHANGED pc
    /\ UNCHANGED <<panic, inputVars, PostIds, gcp, pd, queue, resChan, errChan, progress, pureVars>>

NoBarrier == TRUE
\* sync.WaitGroup.Wait returns once the counter is zero (part_001:99, 282)
WaitReturns == wg = 0

\* part_001:282-284: the barrier, then the channels are closed
getFanboxPosts_Wait ==
    /\ Running /\ pc = "fp_wait"
    /\ WaitReturns
    /\ queue' = [queue EXCEPT !.closed = TRUE]
    /\ resChan' = [resChan EXCEPT !.closed = TRUE]
    /\ pc' = "fp_parse"
    /\ UNCHANGED <<panic, inputVars, PostIds, gcp, fp, pd, errChan, wg, tasks, progress, pureVars>>

\* part_001:289-298: one received resStruct is parsed
getFanboxPosts_Parse ==
    /\ Running /\ pc = "fp_parse"
    /\ resChan.buf # <<>>
    /\ LET res == Head(resChan.buf)
       IN  fp' = IF res.err # NilErr
                 THEN [fp EXCEPT !.errSlice = Append(@, res.err), !.received = @ + 1]
                 ELSE [fp EXCEPT !.postIds = @ \o res.items, !.received = @ + 1]
    /\ resChan' = [resChan EXCEPT !.buf = Tail(@)]
    /\ UNCHANGED <<pc, panic, inputVars, PostIds, gcp, pd, queue, errChan, wg, tasks, progress, pureVars>>

\* part_001:289, 300-303: the closed channel is drained, the post IDs returned
getFanboxPosts_Return ==
    /\ Running /\ pc = "fp_parse"
    /\ resChan.buf = <<>> /\ resChan.closed
    /\ fp' = [FpLocals EXCEPT !.ret = [postIds |-> fp.postIds, err |-> NilErr]]
    /\ queue' = NoQueue
    /\ resChan' = NoChan
    /\ tasks' = <<>>
    /\ pc' = "gcp_ret"
    /\ UNCHANGED <<panic, inputVars, PostIds, gcp, pd, errChan, wg, progress, pureVars>>


(***************************************************************************)
(* Channel operations of the tasks.                                        *)
(***************************************************************************)
Unbounded(q) == TRUE
\* `queue <- struct{}{}` can proceed: a send on a closed channel panics at
\* once, a send on an open one needs room in the buffer
QueueSendReady(q) == q.closed \/ q.len < q.cap
\* `<-queue` can proceed: a value is buffered, or the channel is closed
QueueRecvReady(q) == q.closed \/ q.len > 0
\* `ch <- m` can proceed
ChanSendReady(ch) == ch.closed \/ Len(ch.buf) < ch.cap

SEND_ON_CLOSED == "send on closed channel"
NEGATIVE_WG == "sync: negative WaitGroup counter"

\* the semaphore after one more value was sent / received
QueueAfterSend(q) == [q EXCEPT !.len = @ + 1]
QueueKeep(q) == q
QueueAfterRecv(q) == IF q.len > 0 THEN [q EXCEPT !.len = @ - 1] ELSE q

(***************************************************************************)
(* The page tasks of getFanboxPosts (part_001:244-280).                    *)
(***************************************************************************)
IsTask(i, fn, at) == i \in 1..Len(tasks) /\ tasks[i].fn = fn /\ tasks[i].pc = at

\* part_001:249: queue <- struct{}{}
PageTask_Acquire(i) ==
    /\ Running /\ IsTask(i, "page", "start")
    /\ QueueSendReady(queue)
    /\ IF queue.closed
       THEN /\ panic' = SEND_ON_CLOSED
            /\ UNCHANGED <<queue, tasks>>
       ELSE /\ queue' = QueueAfterSend(queue)
            /\ tasks' = [tasks EXCEPT ![i].pc = "acquired", ![i].acquired = @ + 1]
            /\ UNCHANGED panic
    /\ UNCHANGED <<pc, inputVars, PostIds, gcp, fp, pd, resChan, errChan, wg, progress, pureVars>>

\* the outcomes of one page request and of LoadJsonFromResponse on its body
PageOutcomes ==
    {[kind |-> k] : k \in {"connErr", "non200", "jsonErr", "ok"}}

\* part_001:250-273: the request; a failed one is logged and the task returns
PageTask_Request(i) ==
    /\ Running /\ IsTask(i, "page", "acquired")
    /\ \E o \in PageOutcomes :
         /\ IF o.kind \in {"connErr", "non200"}
            THEN /\ fp' = [fp EXCEPT !.logged = @ + 1]
                 /\ tasks' = [tasks EXCEPT ![i].pc = "exiting", ![i].out = o,
                                           ![i].requests = @ + 1]
            ELSE /\ tasks' = [tasks EXCEPT ![i].pc = "responded", ![i].out = o,
                                           ![i].requests = @ + 1]
                 /\ UNCHANGED fp
         /\ gcp' = IF o.kind = "ok" THEN gcp ELSE [gcp EXCEPT !.pageFailed = TRUE]
    /\ UNCHANGED <<pc, panic, inputVars, PostIds, pd, queue, resChan, errChan, wg,
                   progress, pureVars>>

PageResStructNoErr(o, page) == [err |-> NilErr, items |-> PageItems(page)]
\* part_001:274-279 with useful.go:599-645: the resStruct a page task sends
PageResStruct(o, page) ==
    IF o.kind = "jsonErr"
    THEN [err |-> Errorf(RESPONSE_ERROR, "unmarshal json response"), items |-> <<>>]
    ELSE [err |-> NilErr, items |-> PageItems(page)]

\* part_001:274-279: resChan <- &resStruct{...}
PageTask_Send(i) ==
    /\ Running /\ IsTask(i, "page", "responded")
    /\ ChanSendReady(resChan)
    /\ IF resChan.closed
       THEN /\ panic' = SEND_ON_CLOSED
            /\ UNCHANGED <<resChan, tasks>>
       ELSE /\ resChan' = [resChan EXCEPT !.buf = Append(@, PageResStruct(tasks[i].out, tasks[i].page))]
            /\ tasks' = [tasks EXCEPT ![i].pc = "exiting"]
            /\ UNCHANGED panic
    /\ UNCHANGED <<pc, inputVars, PostIds, gcp, fp, pd, queue, errChan, wg, progress, pureVars>>

\* part_001:246: the deferred <-queue
PageTask_Release(i) ==
    /\ Running /\ IsTask(i, "page", "exiting")
    /\ QueueRecvReady(queue)
    /\ queue' = QueueAfterRecv(queue)
    /\ tasks' = [tasks EXCEPT ![i].pc = "released", ![i].released = @ + 1]
    /\ UNCHANGED <<pc, panic, inputVars, PostIds, gcp, fp, pd, resChan, errChan, wg,
                   progress, pureVars>>

\* part_001:247: the deferred wg.Done()
PageTask_Done(i) ==
    /\ Running /\ IsTask(i, "page", "released")
    /\ IF wg = 0
       THEN /\ panic' = NEGATIVE_WG
            /\ UNCHANGED <<wg, tasks>>
       ELSE /\ wg' = wg - 1
            /\ tasks' = [tasks EXCEPT ![i].pc = "done"]
            /\ UNCHANGED panic
    /\ UNCHANGED <<pc, inputVars, PostIds, gcp, fp, pd, queue, resChan, errChan, progress,
                   pureVars>>


(***************************************************************************)
(* getPostDetails (part_001:26-156): the detail phase.                     *)
(***************************************************************************)
\* the result and error channels made as small as the semaphore
getPostDetails_StartSmallChans ==
    /\ Running /\ pc = "pd_start"
    /\ queue' = MakeQueue(MaxConcurrency(Len(PostIds)))
    /\ resChan' = MakeChan(MaxConcurrency(Len(PostIds)))
    /\ errChan' = MakeChan(MaxConcurrency(Len(PostIds)))
    /\ wg' = 0
    /\ tasks' = <<>>
    /\ pd' = PdLocals
    /\ progress' = [progress EXCEPT !.req =
                       [NewProgress(Len(PostIds)) EXCEPT !.started = TRUE]]
    /\ gcp' = GcpLocals
    /\ pc' = "pd_spawn"
    /\ UNCHANGED <<panic, inputVars, PostIds, fp, pureVars>>

\* part_001:27-55: maxConcurrency, the channels, the request spinner
getPostDetails_Start ==
    /\ Running /\ pc = "pd_start"
    /\ queue' = MakeQueue(MaxConcurrency(Len(PostIds)))
    /\ resChan' = MakeChan(Len(PostIds))
    /\ errChan' = MakeChan(Len(PostIds))
    /\ wg' = 0
    /\ tasks' = <<>>
    /\ pd' = PdLocals
    /\ progress' = [progress EXCEPT !.req =
                       [NewProgress(Len(PostIds)) EXCEPT !.started = TRUE]]
    /\ gcp' = GcpLocals
    /\ pc' = "pd_spawn"
    /\ UNCHANGED <<panic, inputVars, PostIds, fp, pureVars>>

\* part_001:58-98: one iteration of the loop over pf.PostIds
getPostDetails_Spawn ==
    /\ Running /\ pc = "pd_spawn"
    /\ IF pd.idx >= Len(PostIds)
       THEN /\ pc' = "pd_wait"
            /\ UNCHANGED <<pd, wg, tasks>>
       ELSE /\ wg' = wg + 1
            /\ tasks' = Append(tasks, NewTask("post", 0, PostIds[pd.idx + 1]))
            /\ pd' = [pd EXCEPT !.idx = @ + 1]
            /\ UNCHANGED pc
    /\ UNCHANGED <<panic, inputVars, PostIds, gcp, fp, queue, resChan, errChan, progress,
                   pureVars>>

\* part_001:99-102: the barrier, then the three channels are closed
getPostDetails_Wait ==
    /\ Running /\ pc = "pd_wait"
    /\ WaitReturns
    /\ queue' = [queue EXCEPT !.closed = TRUE]
    /\ resChan' = [resChan EXCEPT !.closed = TRUE]
    /\ errChan' = [errChan EXCEPT !.closed = TRUE]
    /\ pc' = "pd_closed"
    /\ UNCHANGED <<panic, inputVars, PostIds, gcp, fp, pd, wg, tasks, progress, pureVars>>

\* part_001:104-132: the errors are logged, the request spinner stopped and
\* the JSON spinner started with len(resChan) as its total
getPostDetails_StopRequests ==
    /\ Running /\ pc = "pd_closed"
    /\ pd' = [pd EXCEPT !.logged = errChan.buf]
    /\ errChan' = [errChan EXCEPT !.buf = <<>>]
    /\ progress' = [progress EXCEPT
           !.req.stopped = TRUE,
           !.req.hasErr = (Len(errChan.buf) > 0),
           !.json = [NewProgress(Len(resChan.buf)) EXCEPT !.started = TRUE]]
    /\ pc' = "pd_parse"
    /\ UNCHANGED <<panic, inputVars, PostIds, gcp, fp, queue, resChan, wg, tasks, pureVars>>

\* the outcomes of processFanboxPost on one response (part_001:134-138)
ParseOutcomes == {"jsonErr", "ok"}

\* a request.ToDownload: the URL and the post whose folder it is saved in
ToDownload(urls, postId) == [k \in 1..Len(urls) |-> [url |-> urls[k], postId |-> postId]]

\* part_001:133-146: one received response is parsed into download targets
getPostDetails_Parse ==
    /\ Running /\ pc = "pd_parse"
    /\ resChan.buf # <<>>
    /\ LET res == Head(resChan.buf)
       IN  \E o \in ParseOutcomes :
             pd' = IF o = "jsonErr"
                   THEN [pd EXCEPT !.errSlice = Append(@, Errorf(JSON_ERROR, res.postId))]
                   ELSE [pd EXCEPT
                            !.urlsMap = @ \o ToDownload(PostUrls(res.postId), res.postId),
                            !.gdriveUrls = @ \o ToDownload(PostGdriveLinks(res.postId),
                                                           res.postId)]
    /\ resChan' = [resChan EXCEPT !.buf = Tail(@)]
    /\ progress' = [progress EXCEPT !.json.count = @ + 1]
    /\ UNCHANGED <<pc, panic, inputVars, PostIds, gcp, fp, queue, errChan, wg, tasks, pureVars>>

\* part_001:133, 148-155: the closed channel is drained, the targets returned
getPostDetails_Return ==
    /\ Running /\ pc = "pd_parse"
    /\ resChan.buf = <<>> /\ resChan.closed
    /\ progress' = [progress EXCEPT !.json.stopped = TRUE,
                                    !.json.hasErr = (Len(pd.errSlice) > 0)]
    /\ pc' = "done"
    /\ UNCHANGED <<panic, inputVars, PostIds, gcp, fp, pd, poolVars, pureVars>>

(***************************************************************************)
(* The post tasks of getPostDetails (part_001:60-97).                      *)
(***************************************************************************)
\* part_001:66: queue <- struct{}{}
PostTask_Acquire(i) ==
    /\ Running /\ IsTask(i, "post", "start")
    /\ QueueSendReady(queue)
    /\ IF queue.closed
       THEN /\ panic' = SEND_ON_CLOSED
            /\ UNCHANGED <<queue, tasks>>
       ELSE /\ queue' = QueueAfterSend(queue)
            /\ tasks' = [tasks EXCEPT ![i].pc = "acquired", ![i].acquired = @ + 1]
            /\ UNCHANGED panic
    /\ UNCHANGED <<pc, inputVars, PostIds, gcp, fp, pd, resChan, errChan, wg, progress, pureVars>>

\* the outcomes of one post.info request
PostOutcomes == {[kind |-> k] : k \in {"connErr", "non200", "ok"}}

\* a fail-fast pool: a task skips its request once a sibling has failed
PostTask_RequestFailFast(i) ==
    /\ Running /\ IsTask(i, "post", "acquired")
    /\ IF \E j \in 1..Len(tasks) : tasks[j].out.kind \in {"connErr", "non200"}
       THEN tasks' = [tasks EXCEPT ![i].pc = "sent"]
       ELSE \E o \in {[kind |-> k] : k \in {"connErr", "non200", "ok"}} :
              tasks' = [tasks EXCEPT ![i].pc = "responded", ![i].out = o,
                                     ![i].requests = @ + 1]
    /\ UNCHANGED <<pc, panic, inputVars, PostIds, gcp, fp, pd, queue, resChan, errChan, wg,
                   progress, pureVars>>

\* part_001:67-78: request.CallRequest
PostTask_Request(i) ==
    /\ Running /\ IsTask(i, "post", "acquired")
    /\ \E o \in PostOutcomes :
         tasks' = [tasks EXCEPT ![i].pc = "responded", ![i].out = o, ![i].requests = @ + 1]
    /\ UNCHANGED <<pc, panic, inputVars, PostIds, gcp, fp, pd, queue, resChan, errChan, wg,
                   progress, pureVars>>

PostFailedTransportOnly(o) == o.kind = "connErr"
\* part_001:79, 86: err != nil, or res.StatusCode != 200
PostFailed(o) == o.kind \in {"connErr", "non200"}

\* part_001:80-92: the error a failed post request is reported with
PostError(o) ==
    IF o.kind = "connErr"
    THEN Errorf(CONNECTION_ERROR, "failed to get post details")
    ELSE Errorf(CONNECTION_ERROR, "failed to get post details due to a response")

\* part_001:79-95: the error goes to errChan, the response to resChan
PostTask_Send(i) ==
    /\ Running /\ IsTask(i, "post", "responded")
    /\ LET failed == PostFailed(tasks[i].out)
           ch == IF failed THEN errChan ELSE resChan
       IN  /\ ChanSendReady(ch)
           /\ IF ch.closed
              THEN /\ panic' = SEND_ON_CLOSED
                   /\ UNCHANGED <<resChan, errChan, tasks>>
              ELSE /\ IF failed
                      THEN /\ errChan' = [errChan EXCEPT !.buf = Append(@, PostError(tasks[i].out))]
                           /\ UNCHANGED resChan
                      ELSE /\ resChan' = [resChan EXCEPT !.buf =
                                             Append(@, [postId |-> tasks[i].postId])]
                           /\ UNCHANGED errChan
                   /\ tasks' = [tasks EXCEPT ![i].pc = "sent"]
                   /\ UNCHANGED panic
    /\ UNCHANGED <<pc, inputVars, PostIds, gcp, fp, pd, queue, wg, progress, pureVars>>

\* a task that reports progress for a successful request only
PostTask_IncrementOnSuccess(i) ==
    /\ Running /\ IsTask(i, "post", "sent")
    /\ progress' = IF PostFailed(tasks[i].out) THEN progress
                   ELSE [progress EXCEPT !.req.count = @ + 1]
    /\ tasks' = [tasks EXCEPT ![i].pc = "exiting"]
    /\ UNCHANGED <<pc, panic, inputVars, PostIds, gcp, fp, pd, queue, resChan, errChan, wg,
                   pureVars>>

\* part_001:96: progress.MsgIncrement(baseMsg)
PostTask_Increment(i) ==
    /\ Running /\ IsTask(i, "post", "sent")
    /\ progress' = [progress EXCEPT !.req.count = @ + 1]
    /\ tasks' = [tasks EXCEPT ![i].pc = "exiting"]
    /\ UNCHANGED <<pc, panic, inputVars, PostIds, gcp, fp, pd, queue, resChan, errChan, wg,
                   pureVars>>

\* part_001:62: the deferred <-queue
PostTask_Release(i) ==
    /\ Running /\ IsTask(i, "post", "exiting")
    /\ QueueRecvReady(queue)
    /\ queue' = QueueAfterRecv(queue)
    /\ tasks' = [tasks EXCEPT ![i].pc = "released", ![i].released = @ + 1]
    /\ UNCHANGED <<pc, panic, inputVars, PostIds, gcp, fp, pd, resChan, errChan, wg,
                   progress, pureVars>>

\* part_001:63: the deferred wg.Done()
PostTask_Done(i) ==
    /\ Running /\ IsTask(i, "post", "released")
    /\ IF wg = 0
       THEN /\ panic' = NEGATIVE_WG
            /\ UNCHANGED <<wg, tasks>>
       ELSE /\ wg' = wg - 1
            /\ tasks' = [tasks EXCEPT ![i].pc = "done"]
            /\ UNCHANGED panic
    /\ UNCHANGED <<pc, inputVars, PostIds, gcp, fp, pd, queue, resChan, errChan, progress,
                   pureVars>>

(***************************************************************************)
(* The run: getCreatorsPosts, then getPostDetails.                         *)
(***************************************************************************)
Next ==
    \/ getCreatorsPosts_Start
    \/ getCreatorsPosts_Call
    \/ getCreatorsPosts_Collect
    \/ getCreatorsPosts_Finish
    \/ getFanboxPosts_Discover
    \/ getFanboxPosts_Spawn
    \/ getFanboxPosts_Wait
    \/ getFanboxPosts_Parse
    \/ getFanboxPosts_Return
    \/ getPostDetails_Start
    \/ getPostDetails_Spawn
    \/ getPostDetails_Wait
    \/ getPostDetails_StopRequests
    \/ getPostDetails_Parse
    \/ getPostDetails_Return
    \/ \E i \in 1..Len(tasks) :
         \/ PageTask_Acquire(i)
         \/ PageTask_Request(i)
         \/ PageTask_Send(i)
         \/ PageTask_Release(i)
         \/ PageTask_Done(i)
         \/ PostTask_Acquire(i)
         \/ PostTask_Request(i)
         \/ PostTask_Send(i)
         \/ PostTask_Increment(i)
         \/ PostTask_Release(i)
         \/ PostTask_Done(i)

Spec == Init /\ [][Next]_vars

\* the run under the Go scheduler: a goroutine that can take a step, and
\* an HTTP call in flight, eventually do
FairSpec == Spec /\ WF_vars(Next)

(***************************************************************************)
(* getCreatorsPosts on its own, up to its return, for up to                *)
(* MaxListCreators creators.                                               *)
(***************************************************************************)
InitList ==
    /\ InitLocals
    /\ CreatorIds \in {s \in CreatorIdSeqs : Len(s) <= MaxListCreators}
    /\ CreatorPageNums \in SeqsUpTo(ListPageSpecs, MaxListCreators)
    /\ PostIds \in SeqsUpTo(InitPostIdSet, MaxInitPosts)
    /\ numStr = <<>>
    /\ gmm = NoGmm
    /\ slice = <<>> /\ kemono = NoKemono /\ calls = <<>>
    /\ pageSlice = <<>> /\ options = NoOptions

NextList ==
    \/ getCreatorsPosts_Start
    \/ getCreatorsPosts_Call
    \/ getCreatorsPosts_Collect
    \/ getCreatorsPosts_Finish
    \/ getFanboxPosts_Discover
    \/ getFanboxPosts_Spawn
    \/ getFanboxPosts_Wait
    \/ getFanboxPosts_Parse
    \/ getFanboxPosts_Return
    \/ \E i \in 1..Len(tasks) :
         \/ PageTask_Acquire(i)
         \/ PageTask_Request(i)
         \/ PageTask_Send(i)
         \/ PageTask_Release(i)
         \/ PageTask_Done(i)

SpecList == InitList /\ [][NextList]_vars

(***************************************************************************)
(* GetMinMaxFromStr on its own: every string over Alphabet up to MaxStrLen *)
(* is resolved once.                                                       *)
(***************************************************************************)
InitPure ==
    /\ pc = "pure"
    /\ panic = "none"
    /\ CreatorIds = <<>> /\ CreatorPageNums = <<>> /\ PostIds = <<>>
    /\ gcp = GcpLocals
    /\ fp = FpLocals
    /\ pd = PdLocals
    /\ queue = NoQueue /\ resChan = NoChan /\ errChan = NoChan
    /\ wg = 0
    /\ tasks = <<>>
    /\ progress = [gcp |-> NewProgress(0), req |-> NewProgress(0), json |-> NewProgress(0)]
    /\ numStr \in SeqsUpTo(Alphabet, MaxStrLen)
    /\ gmm = NoGmm
    /\ slice = <<>> /\ kemono = NoKemono /\ calls = <<>>
    /\ pageSlice = <<>> /\ options = NoOptions

\* a caller resolves the page spec (part_001:222)
Call_GetMinMaxFromStr ==
    /\ pc = "pure" /\ ~gmm.called
    /\ gmm' = [called |-> TRUE, res |-> GetMinMaxFromStr(numStr)]
    /\ UNCHANGED <<pc, panic, inputVars, PostIds, gcp, fp, pd, poolVars, progress, numStr,
                   dedupVars>>

NextPure == Call_GetMinMaxFromStr

SpecPure == InitPure /\ [][NextPure]_vars

(***************************************************************************)
(* The deduplications on their own: RemoveSliceDuplicates on every slice   *)
(* over SliceIds, KemonoDl.RemoveDuplicates on every pair of slices over   *)
(* KemonoCreators and KemonoPosts, up to MaxSliceLen, each applied twice.  *)
(***************************************************************************)
InitDedup ==
    /\ panic = "none"
    /\ CreatorIds = <<>> /\ CreatorPageNums = <<>> /\ PostIds = <<>>
    /\ gcp = GcpLocals
    /\ fp = FpLocals
    /\ pd = PdLocals
    /\ queue = NoQueue /\ resChan = NoChan /\ errChan = NoChan
    /\ wg = 0
    /\ tasks = <<>>
    /\ progress = [gcp |-> NewProgress(0), req |-> NewProgress(0), json |-> NewProgress(0)]
    /\ numStr = <<>>
    /\ gmm = NoGmm
    /\ options = NoOptions
    /\ \/ /\ pc = "slice"
          /\ slice \in SeqsUpTo(SliceIds, MaxSliceLen)
          /\ kemono = NoKemono
          /\ pageSlice = <<>>
          /\ calls = <<slice>>
       \/ /\ pc = "kemono"
          /\ slice = <<>>
          /\ \E creators \in SeqsUpTo(KemonoCreators, MaxSliceLen),
                posts \in SeqsUpTo(KemonoPosts, MaxSliceLen) :
                kemono = [NoKemono EXCEPT !.CreatorsToDl = creators, !.PostsToDl = posts]
          /\ pageSlice = <<>>
          /\ calls = <<kemono>>
       \/ /\ pc = "idpage"
          /\ kemono = NoKemono
          /\ \E pairs \in SeqsUpTo(IdPagePairs, MaxSliceLen) :
                /\ slice = [i \in 1..Len(pairs) |-> pairs[i][1]]
                /\ pageSlice = [i \in 1..Len(pairs) |-> pairs[i][2]]
          /\ calls = <<[ids |-> slice, pages |-> pageSlice]>>

\* a caller deduplicates its slice (part_001:359), and may do so again
Call_RemoveSliceDuplicates ==
    /\ pc = "slice" /\ Len(calls) < 3
    /\ slice' = RemoveSliceDuplicates(slice)
    /\ calls' = Append(calls, slice')
    /\ UNCHANGED <<pc, panic, inputVars, PostIds, gcp, fp, pd, poolVars, progress, numStr,
                   gmm, kemono, pageSlice, options>>

\* a caller deduplicates its KemonoDl (part_000:153), and may do so again
Call_RemoveDuplicates ==
    /\ pc = "kemono" /\ Len(calls) < 3
    /\ kemono' = RemoveDuplicates(kemono)
    /\ calls' = Append(calls, kemono')
    /\ UNCHANGED <<pc, panic, inputVars, PostIds, gcp, fp, pd, poolVars, progress, numStr,
                   gmm, slice, pageSlice, options>>

\* a caller deduplicates its IDs and their page specs together
Call_RemoveDuplicateIdAndPageNum ==
    /\ pc = "idpage" /\ Len(calls) < 3
    /\ LET r == RemoveDuplicateIdAndPageNum(slice, pageSlice) IN
          /\ slice' = r[1]
          /\ pageSlice' = r[2]
          /\ calls' = Append(calls, [ids |-> r[1], pages |-> r[2]])
    /\ UNCHANGED <<pc, panic, inputVars, PostIds, gcp, fp, pd, poolVars, progress, numStr,
                   gmm, kemono, options>>

(***************************************************************************)
(* (k *KemonoDl).ValidateArgs and (k *KemonoDlOptions).ValidateArgs        *)
(* (part_000:111-154, 173-186).  os.Exit(1) leaves pc at "exited".         *)
(***************************************************************************)
InitKemono ==
    /\ panic = "none"
    /\ CreatorIds = <<>> /\ CreatorPageNums = <<>> /\ PostIds = <<>>
    /\ gcp = GcpLocals
    /\ fp = FpLocals
    /\ pd = PdLocals
    /\ queue = NoQueue /\ resChan = NoChan /\ errChan = NoChan
    /\ wg = 0
    /\ tasks = <<>>
    /\ progress = [gcp |-> NewProgress(0), req |-> NewProgress(0), json |-> NewProgress(0)]
    /\ numStr = <<>>
    /\ gmm = NoGmm
    /\ slice = <<>> /\ pageSlice = <<>>
    /\ \/ /\ pc = "kv_start"
          /\ \E creatorUrls \in SeqsUpTo(CreatorUrlInputs, MaxUrls),
                pageNums \in SeqsUpTo(PageNumInputs, MaxUrls),
                postUrls \in SeqsUpTo(PostUrlInputs, MaxUrls) :
                kemono = [NoKemono EXCEPT !.CreatorUrls = creatorUrls,
                                          !.CreatorPageNums = pageNums,
                                          !.PostUrls = postUrls]
          /\ options = NoOptions
          /\ calls = <<kemono>>
       \/ /\ pc = "ko_start"
          /\ kemono = NoKemono
          /\ \E id \in {"", "sid"}, dlGdrive \in BOOLEAN, client \in {"nil", "client"} :
                options = [NoOptions EXCEPT !.SessionCookieId = id,
                                           !.DlGdrive = dlGdrive,
                                           !.GdriveClient = client]
          /\ calls = <<options>>

kemonoRest == <<inputVars, PostIds, gcp, fp, pd, poolVars, progress, numStr, gmm, slice,
                pageSlice, calls>>

\* part_000:112-118
KemonoDl_ValidatePageNumInput ==
    /\ pc = "kv_start"
    /\ pc' = IF ValidatePageNumInput(Len(kemono.CreatorUrls), kemono.CreatorPageNums)
             THEN "kv_creators" ELSE "exited"
    /\ UNCHANGED <<panic, kemono, options, kemonoRest>>

\* part_000:120-130
KemonoDl_ValidateCreatorUrls ==
    /\ pc = "kv_creators"
    /\ pc' = IF SliceMatchesRegex(CREATOR_URL_REGEX, kemono.CreatorUrls).valid
             THEN "kv_posts" ELSE "exited"
    /\ UNCHANGED <<panic, kemono, options, kemonoRest>>

\* part_000:132-142
KemonoDl_ValidatePostUrls ==
    /\ pc = "kv_posts"
    /\ pc' = IF SliceMatchesRegex(POST_URL_REGEX, kemono.PostUrls).valid
             THEN "kv_process" ELSE "exited"
    /\ UNCHANGED <<panic, kemono, options, kemonoRest>>

\* what part_000:144-152 make of k, and whether they panic
ProcessUrls(k) ==
    LET creators == ProcessCreatorUrls(k.CreatorUrls, k.CreatorPageNums)
        posts == ProcessPostUrls(k.PostUrls)
        k1 == IF Len(k.CreatorUrls) > 0 /\ ~creators.panicked
              THEN [k EXCEPT !.CreatorsToDl = creators.creatorsToDl,
                             !.CreatorUrls = <<>>,
                             !.CreatorPageNums = <<>>]
              ELSE k
        k2 == IF Len(k.PostUrls) > 0 /\ ~posts.panicked
              THEN [k1 EXCEPT !.PostsToDl = posts.postsToDl, !.PostUrls = <<>>]
              ELSE k1
    IN  IF Len(k.CreatorUrls) > 0 /\ creators.panicked THEN [panicked |-> TRUE, k |-> k]
        ELSE IF Len(k.PostUrls) > 0 /\ posts.panicked THEN [panicked |-> TRUE, k |-> k1]
        ELSE [panicked |-> FALSE, k |-> k2]

\* the URLs are processed and the duplicates are left in
KemonoDl_ProcessKeepDuplicates ==
    /\ pc = "kv_process"
    /\ LET r == ProcessUrls(kemono) IN
          /\ kemono' = r.k
          /\ panic' = IF r.panicked THEN "index out of range" ELSE panic
          /\ pc' = IF r.panicked THEN "panicked" ELSE "kv_done"
    /\ UNCHANGED <<options, kemonoRest>>

\* part_000:144-153
KemonoDl_Process ==
    /\ pc = "kv_process"
    /\ LET r == ProcessUrls(kemono) IN
          /\ kemono' = IF r.panicked THEN r.k ELSE RemoveDuplicates(r.k)
          /\ panic' = IF r.panicked THEN "index out of range" ELSE panic
          /\ pc' = IF r.panicked THEN "panicked" ELSE "kv_done"
    /\ UNCHANGED <<options, kemonoRest>>

\* part_000:173-186
KemonoDlOptions_ValidateArgs ==
    /\ pc = "ko_start"
    /\ IF options.SessionCookieId # ""
       THEN \E r \in VerifyAndGetCookie(options.SessionCookieId) :
              IF r.exits
              THEN pc' = "exited" /\ UNCHANGED options
              ELSE /\ pc' = "ko_done"
                   /\ options' = [options EXCEPT
                         !.SessionCookies = <<r.cookie>>,
                         !.DlGdrive = IF options.DlGdrive /\ options.GdriveClient = "nil"
                                      THEN FALSE ELSE options.DlGdrive]
       ELSE pc' = "exited" /\ UNCHANGED options
    /\ UNCHANGED <<panic, kemono, kemonoRest>>

NextKemono ==
    \/ KemonoDl_ValidatePageNumInput
    \/ KemonoDl_ValidateCreatorUrls
    \/ KemonoDl_ValidatePostUrls
    \/ KemonoDl_Process
    \/ KemonoDlOptions_ValidateArgs

SpecKemono == InitKemono /\ [][NextKemono]_vars

NextDedup ==
    \/ Call_RemoveSliceDuplicates
    \/ Call_RemoveDuplicates
    \/ Call_RemoveDuplicateIdAndPageNum

SpecDedup == InitDedup /\ [][NextDedup]_vars

(***************************************************************************)
(* Properties.                                                             *)
(***************************************************************************)
TaskIds == 1..Len(tasks)
\* the tasks that have acquired a semaphore slot and not yet released it
Holders == {i \in TaskIds : tasks[i].acquired > tasks[i].released}
\* the tasks whose request failed, by what the request returned
TasksWith(kinds) == {i \in TaskIds : tasks[i].out.kind \in kinds}
AllDone == \A i \in TaskIds : tasks[i].pc = "done"
\* the driver is past the barrier of the running pool
PastBarrier == pc \in {"fp_parse", "pd_closed", "pd_parse", "done"}
InPool == pc \in {"fp_spawn", "fp_wait", "fp_parse",
                  "pd_spawn", "pd_wait", "pd_closed", "pd_parse", "done"}
InDetails == pc \in {"pd_spawn", "pd_wait", "pd_closed", "pd_parse", "done"}
InList == pc \in {"fp_spawn", "fp_wait", "fp_parse"}

\* C1: at every moment, in both pools, the number of tasks holding a
\* semaphore slot is at most min(MAX_API_CALLS, number of tasks spawned).
C1_BoundedConcurrency ==
    /\ Cardinality(Holders) <= Min(MAX_API_CALLS, Len(tasks))
    /\ queue.len = Cardinality(Holders)
    /\ queue.len <= queue.cap

\* three post tasks: two hold the two slots, the third waits for one
C1_Witness ==
    /\ pc = "pd_wait" /\ Len(tasks) = 3
    /\ Cardinality(Holders) = MAX_API_CALLS
    /\ \E i \in TaskIds : tasks[i].fn = "post" /\ tasks[i].pc = "start"

\* C2: full barrier.  No task ever sends on a closed channel; a channel of
\* the pool is closed, and a result is read by the driver, only when every
\* spawned task has finished.
C2_FullBarrier ==
    /\ panic # SEND_ON_CLOSED
    /\ (queue.closed \/ resChan.closed \/ errChan.closed) => AllDone
    /\ (InPool /\ PastBarrier) => AllDone
    /\ (InPool /\ PastBarrier) => (queue.closed /\ resChan.closed)

\* the driver reads results of three post tasks after they all finished
C2_Witness ==
    /\ pc = "pd_parse" /\ Len(tasks) = 3 /\ AllDone
    /\ Len(resChan.buf) = 2 /\ progress.json.count = 1

\* C3: after the barrier of getPostDetails, with T post IDs of which F
\* requests failed, errChan holds F errors and resChan T-F responses, and
\* every download target comes from a post whose request succeeded.
FromSuccessfulPost(targets) ==
    \A k \in 1..Len(targets) :
        \E i \in TasksWith({"ok"}) : tasks[i].postId = targets[k].postId
C3_ErrorsAndResponses ==
    LET T == Len(PostIds)
        F == Cardinality(TasksWith({"connErr", "non200"}))
    IN  /\ pc = "pd_closed" =>
              /\ Len(tasks) = T
              /\ Len(errChan.buf) = F
              /\ Len(resChan.buf) = T - F
        /\ pc \in {"pd_parse", "done"} =>
              /\ Len(pd.logged) = F
              /\ progress.json.total = T - F
              /\ progress.json.count + Len(resChan.buf) = T - F
              /\ FromSuccessfulPost(pd.urlsMap)
              /\ FromSuccessfulPost(pd.gdriveUrls)
              /\ \A k \in 1..Len(resChan.buf) :
                     \E i \in TasksWith({"ok"}) : tasks[i].postId = resChan.buf[k].postId

\* three post IDs, two requests failed: two errors, targets of the third
C3_Witness ==
    /\ pc = "done" /\ Len(tasks) = 3
    /\ Cardinality(TasksWith({"connErr", "non200"})) = 2
    /\ Len(pd.logged) = 2
    /\ Len(pd.urlsMap) > 0

\* the resStructs still in resChan that carry an error / a parsed page
ErrMsgs == {k \in 1..Len(resChan.buf) : resChan.buf[k].err # NilErr}
\* the post IDs getFanboxPosts has or will have once resChan is drained
RECURSIVE PendingIds(_)
PendingIds(buf) == IF buf = <<>> THEN <<>> ELSE Head(buf).items \o PendingIds(Tail(buf))
RECURSIVE SumItems(_)
SumItems(S) ==
    IF S = {} THEN 0
    ELSE LET i == CHOOSE x \in S : TRUE
         IN  Len(PageItems(tasks[i].page)) + SumItems(S \ {i})

C5_SlotsReleased ==
    /\ \A i \in TaskIds :
          /\ tasks[i].released <= tasks[i].acquired
          /\ tasks[i].acquired <= 1
          /\ tasks[i].pc \in {"released", "done"} =>
                 (tasks[i].acquired = 1 /\ tasks[i].released = 1)
    /\ queue.len = Cardinality(Holders)
    /\ queue.closed => (queue.len = 0 /\ Holders = {})

\* a page task that returned early after a failed request has released
\* its slot, and the semaphore was closed empty
C5_Witness ==
    /\ pc = "fp_parse" /\ queue.closed /\ Len(tasks) = 2
    /\ \E i \in TaskIds : tasks[i].out.kind = "non200" /\ tasks[i].released = 1
    /\ \E i \in TaskIds : tasks[i].out.kind = "ok" /\ tasks[i].released = 1

\* C6: every task issues its request exactly once, whatever its siblings
\* returned: never twice, and once it is past its request and at the
\* barrier exactly once; one task is spawned per item, never a second one.
C6_OneRequestEach ==
    /\ \A i \in TaskIds :
          /\ tasks[i].requests <= 1
          /\ tasks[i].pc \notin {"start", "acquired"} => tasks[i].requests = 1
          /\ tasks[i].requests = 1 <=> tasks[i].out.kind # "none"
    /\ (InPool /\ PastBarrier) => \A i \in TaskIds : tasks[i].requests = 1
    /\ InDetails => Len(tasks) = pd.idx /\ Len(tasks) <= Len(PostIds)
    /\ InList => /\ Len(tasks) <= fp.idx
                 /\ \A i, j \in TaskIds : tasks[i].page = tasks[j].page => i = j

\* three post tasks: the first failed, the others still made their request
C6_Witness ==
    /\ pc = "pd_closed" /\ Len(tasks) = 3
    /\ tasks[1].out.kind = "connErr"
    /\ tasks[2].out.kind = "ok" /\ tasks[3].out.kind = "non200"
    /\ \A i \in TaskIds : tasks[i].requests = 1

\* C7: under fair scheduling every call of getFanboxPosts and of
\* getPostDetails returns, whatever the number of tasks: nothing waits for
\* ever on the semaphore, on a channel or on the WaitGroup.
C7_Terminates ==
    /\ (pc = "fp_discover") ~> (pc = "gcp_ret")
    /\ (pc = "pd_start") ~> (pc = "done")

\* getPostDetails returned after three tasks shared the two slots
C7_Witness ==
    /\ pc = "done" /\ Len(tasks) = 3 /\ AllDone
    /\ progress.req.stopped /\ progress.json.stopped

\* the pages of the running getFanboxPosts call that lie in its range
InRangePages ==
    LET r == GetMinMaxFromStr(fp.pageNum)
    IN  {p \in 1..fp.paginatedUrls : p >= r.min /\ (~r.hasMax \/ p <= r.max)}

C9_PagesInRange ==
    /\ InList =>
          /\ \A i \in TaskIds : tasks[i].page \in InRangePages
          /\ \A i, j \in TaskIds : tasks[i].page = tasks[j].page => i = j
    /\ pc \in {"fp_wait", "fp_parse"} =>
          /\ {tasks[i].page : i \in TaskIds} = InRangePages
          /\ Len(tasks) = Cardinality(InRangePages)
    /\ pc = "fp_parse" =>
          /\ \A i \in TaskIds : tasks[i].requests = 1
          /\ InRangePages = {} =>
                (tasks = <<>> /\ fp.errSlice = <<>> /\ fp.logged = 0 /\ resChan.buf = <<>>)

\* two pages, page spec "2-3": page 2 alone was requested
C9_Witness ==
    /\ pc = "fp_parse" /\ fp.paginatedUrls = 2
    /\ fp.pageNum = <<"2", "-", "3">>
    /\ Len(tasks) = 1 /\ tasks[1].page = 2 /\ tasks[1].requests = 1

\* strconv.Itoa for n >= 0
RECURSIVE Itoa(_)
Itoa(n) == IF n < 10 THEN <<Digits[n + 1]>> ELSE Itoa(n \div 10) \o <<Digits[(n % 10) + 1]>>
Max(a, b) == IF a > b THEN a ELSE b

\* C10: GetMinMaxFromStr maps "" to (min 1, unbounded), "N" to (N, N,
\* bounded) and "N-M" to (min(N,M), max(N,M), bounded) for positive N, M,
\* and min <= max in every bounded result.
C10_PageRange ==
    gmm.called =>
        /\ numStr = <<>> =>
              (gmm.res.min = 1 /\ ~gmm.res.hasMax /\ gmm.res.err = NilErr)
        /\ \A N \in 1..MaxNum :
              numStr = Itoa(N) => gmm.res = GMMResult(N, N, TRUE, NilErr)
        /\ \A N, M \in 1..MaxNum :
              numStr = Itoa(N) \o <<"-">> \o Itoa(M) =>
                  gmm.res = GMMResult(Min(N, M), Max(N, M), TRUE, NilErr)
        /\ gmm.res.hasMax => gmm.res.min <= gmm.res.max

\* "12-2" was resolved to (2, 12, bounded)
C10_Witness ==
    /\ gmm.called /\ numStr = <<"1", "2", "-", "2">>
    /\ gmm.res = GMMResult(2, 12, TRUE, NilErr)

\* the tokens of a page spec: the text between its "-" separators
RECURSIVE Tokens(_)
Tokens(s) ==
    IF ~Contains(s, "-") THEN <<s>>
    ELSE LET parts == SplitN2(s, "-") IN <<parts[1]>> \o Tokens(parts[2])
AllDigits(t) == Len(t) > 0 /\ \A i \in 1..Len(t) : IsDigit(t[i])
\* a page spec with a token that is not a number, or with a number that is 0
BadPageSpec(s) ==
    /\ s # <<>>
    /\ \E k \in 1..Len(Tokens(s)) :
          LET t == Tokens(s)[k] IN ~AllDigits(t) \/ DigitsVal(t) = 0

\* C11 as stated: a page spec that contains a non-digit token or a zero
\* value ("0", "0-2", "1--2", "a-2") is never resolved to a range: the
\* resolver returns an error for it.
C11_Original ==
    (gmm.called /\ BadPageSpec(numStr)) => gmm.res.err # NilErr

\* C12 as stated: every range GetMinMaxFromStr returns without an error
\* has 1 <= min <= max, whatever the input string.
C12_Original ==
    (gmm.called /\ gmm.res.err = NilErr) =>
        (1 <= gmm.res.min /\ gmm.res.min <= gmm.res.max)

\* C13: deduplication is idempotent: RemoveSliceDuplicates, and
\* KemonoDl.RemoveDuplicates, applied to their own result return it unchanged.
C13_Idempotent ==
    Len(calls) = 3 => calls[3] = calls[2]

\* a slice with a repeated ID was deduplicated twice
C13_Witness ==
    /\ pc = "slice" /\ Len(calls) = 3
    /\ calls[1] = <<"p1", "p1", "p1">>
    /\ calls[2] = <<"p1">> /\ slice = <<"p1">>

\* out is in restricted to the first occurrence of every key, in input
\* order; keys[i] is the key of in[i]
IsFirstOccurrences(in, out, keys) ==
    LET first == {i \in 1..Len(in) : \A j \in 1..(i - 1) : keys[j] # keys[i]}
        nth(k) == CHOOSE i \in first : Cardinality({j \in first : j <= i}) = k
    IN  /\ Len(out) = Cardinality(first)
        /\ \A k \in 1..Len(out) : out[k] = in[nth(k)]
CreatorKeys(s) == [i \in 1..Len(s) |-> <<s[i].Service, s[i].CreatorId>>]
PostKeys(s) == [i \in 1..Len(s) |-> <<s[i].Service, s[i].CreatorId, s[i].PostId>>]

\* C14: RemoveSliceDuplicates and KemonoDl.RemoveDuplicates return exactly
\* the first occurrence of every distinct key, in input order: no key twice,
\* no key lost, no two different keys merged; the key is the string itself,
\* (service, creatorId) for creators, (service, creatorId, postId) for posts.
C14_FirstOccurrences ==
    Len(calls) >= 2 =>
        IF pc = "slice"
        THEN IsFirstOccurrences(calls[1], calls[2], calls[1])
        ELSE pc = "kemono" =>
             /\ IsFirstOccurrences(calls[1].CreatorsToDl, calls[2].CreatorsToDl,
                                   CreatorKeys(calls[1].CreatorsToDl))
             /\ IsFirstOccurrences(calls[1].PostsToDl, calls[2].PostsToDl,
                                   PostKeys(calls[1].PostsToDl))

\* patreon/a1/1 twice and patreon/a/11 dedupe to two posts in first-seen
\* order, and the creator patreon/a1 keeps its first page spec
C14_Witness ==
    /\ pc = "kemono" /\ Len(calls) = 2
    /\ calls[1].PostsToDl = <<KemonoPostToDl(Patreon, <<"a", "1">>, <<"1">>),
                              KemonoPostToDl(Patreon, <<"a", "1">>, <<"1">>),
                              KemonoPostToDl(Patreon, <<"a">>, <<"1", "1">>)>>
    /\ kemono.PostsToDl = <<KemonoPostToDl(Patreon, <<"a", "1">>, <<"1">>),
                            KemonoPostToDl(Patreon, <<"a">>, <<"1", "1">>)>>
    /\ calls[1].CreatorsToDl = <<KemonoCreatorToDl(Patreon, <<"a", "1">>, <<"1">>),
                                 KemonoCreatorToDl(Patreon, <<"a", "1">>, <<>>)>>
    /\ kemono.CreatorsToDl = <<KemonoCreatorToDl(Patreon, <<"a", "1">>, <<"1">>)>>

NoDuplicates(s) == \A i, j \in 1..Len(s) : s[i] = s[j] => i = j

Urls(targets) == [k \in 1..Len(targets) |-> targets[k].url]

\* C16 as stated: the direct URLs and the cloud-storage URLs getPostDetails
\* returns hold no URL twice, also when two posts yield the same URL.
C16_Original ==
    pc = "done" => (NoDuplicates(Urls(pd.urlsMap)) /\ NoDuplicates(Urls(pd.gdriveUrls)))

Reporters == {"gcp", "req", "json"}
\* what holds of a progress reporter in every state: nothing is counted
\* before Start or beyond total, and Stop comes after the last increment
ProgressInOrder(p) ==
    /\ p.count > 0 => p.started
    /\ p.stopped => p.started
    /\ p.count <= p.total
    /\ p.stopped => p.count = p.total
\* what holds of every step: a started reporter is not created or started
\* again, increments come one at a time, a stopped reporter sees no event
ProgressStep(p, q) ==
    /\ p.started => (q.started /\ q.total = p.total)
    /\ (~p.started /\ q.started) => q.count = 0
    /\ p.started => q.count \in {p.count, p.count + 1}
    /\ p.stopped => q = p

\* C17: each progress reporter of getCreatorsPosts and getPostDetails
\* (request phase, JSON phase) is started once with its total (the number of
\* creators, of post IDs, of responses received), then incremented exactly
\* total times, then stopped once; no increment comes before Start or after
\* Stop in any interleaving.
C17_ProgressOrder ==
    /\ [](/\ \A r \in Reporters : ProgressInOrder(progress[r])
          /\ progress.gcp.started => progress.gcp.total = Len(CreatorIds)
          /\ progress.req.started => progress.req.total = Len(PostIds)
          /\ progress.json.started =>
                progress.json.total = Cardinality(TasksWith({"ok"}))
          /\ pc = "done" => \A r \in Reporters : progress[r].stopped)
    /\ [][\A r \in Reporters : ProgressStep(progress[r], progress'[r])]_vars

\* one creator, three post IDs of which one request failed: the run ended
\* with 1, 3 and 2 increments and every reporter stopped
C17_Witness ==
    /\ pc = "done"
    /\ \A r \in Reporters : progress[r].stopped /\ progress[r].count = progress[r].total
    /\ progress.gcp.total = 1 /\ progress.req.total = 3 /\ progress.json.total = 2
    /\ progress.req.hasErr

\* the creators already handled whose page spec cannot be parsed
Unparsable ==
    {i \in 1..(gcp.idx - 1) : GetMinMaxFromStr(CreatorPageNums[i]).err # NilErr}

\* C18: in getCreatorsPosts a creator whose listing fails (discovery request
\* error, non-200, unreadable or invalid JSON, unparsable page spec) adds
\* one error and no post ID, and the loop goes on to the next creator: the
\* call returns only after every creator was handled, with the post IDs of
\* those that succeeded, also when all of them failed.
C18_CreatorFailureIsolated ==
    /\ [](/\ Len(CreatorIds) = Len(CreatorPageNums) => panic = "none"
          /\ pc = "gcp_ret" =>
                /\ fp.ret.err # NilErr => fp.ret.postIds = <<>>
                /\ GetMinMaxFromStr(CreatorPageNums[gcp.idx]).err # NilErr =>
                       fp.ret.err # NilErr
          /\ pc = "gcp_loop" =>
                /\ progress.gcp.count = gcp.idx - 1
                /\ Len(gcp.errSlice) <= gcp.idx - 1
                /\ Cardinality(Unparsable) <= Len(gcp.errSlice)
          /\ pc = "pd_start" =>
                /\ progress.gcp.count = Len(CreatorIds)
                /\ progress.gcp.stopped)
    /\ [][/\ (pc = "fp_discover" /\ pc' = "gcp_ret") =>
                (fp'.ret.err # NilErr /\ fp'.ret.postIds = <<>>)
          /\ (pc = "gcp_ret" /\ fp.ret.err # NilErr) =>
                /\ gcp'.errSlice = Append(gcp.errSlice, fp.ret.err)
                /\ PostIds' = PostIds
                /\ gcp'.idx = gcp.idx + 1
          /\ (pc = "gcp_ret" /\ fp.ret.err = NilErr) =>
                /\ gcp'.errSlice = gcp.errSlice
                /\ PostIds' = PostIds \o fp.ret.postIds
                /\ gcp'.idx = gcp.idx + 1
          /\ (pc = "gcp_loop" /\ pc' = "pd_start") =>
                /\ gcp.idx = Len(CreatorIds) + 1
                /\ progress'.gcp.hasErr = (gcp.errSlice # <<>>)]_vars

\* two creators, the first with an unparsable page spec: it left one error,
\* the second was still listed and its post p2 was kept
C18_Witness ==
    /\ pc = "gcp_loop" /\ gcp.idx = 3 /\ Len(CreatorIds) = 2
    /\ CreatorPageNums = << <<"a">>, <<"1">> >>
    /\ Len(gcp.errSlice) = 1 /\ gcp.errSlice[1].code = UNEXPECTED_ERROR
    /\ \E k \in 1..Len(PostIds) : PostIds[k] = "p2"
    /\ progress.gcp.count = 2

LengthMismatch == Len(CreatorIds) # Len(CreatorPageNums)

\* C19: when pf.CreatorIds and pf.CreatorPageNums differ in length,
\* getCreatorsPosts panics with a DEV_ERROR before any request is issued,
\* before any progress reporter is started and without changing pf.PostIds;
\* it panics so in no other case.
C19_LengthMismatchAborts ==
    /\ [](/\ LengthMismatch =>
                /\ pc \in {"gcp_start", "panicked"}
                /\ \A r \in Reporters : ~progress[r].started
                /\ tasks = <<>> /\ fp = FpLocals /\ wg = 0
                /\ queue = NoQueue /\ resChan = NoChan /\ errChan = NoChan
          /\ pc = "panicked" => (panic = DEV_ERROR /\ LengthMismatch)
          /\ panic = DEV_ERROR => pc = "panicked")
    /\ [][(pc = "gcp_start" /\ LengthMismatch) =>
              (pc' = "panicked" /\ panic' = DEV_ERROR /\ PostIds' = PostIds)]_vars

\* one creator ID and no page spec: the call panicked, the user's post ID
\* is still the only one and no reporter was started
C19_Witness ==
    /\ pc = "panicked" /\ panic = DEV_ERROR
    /\ CreatorIds = <<"c1">> /\ CreatorPageNums = <<>>
    /\ PostIds = <<"p1">>
    /\ ~progress.gcp.started

\* the phase of the run the driver is in: created, listing, lists done,
\* detail requests, details done, aggregating, aggregated; a panic ends it
PhaseOf(at) ==
    CASE at = "gcp_start" -> 0
      [] at \in {"gcp_loop", "fp_discover", "fp_spawn", "fp_wait", "fp_parse", "gcp_ret"} -> 1
      [] at = "pd_start" -> 2
      [] at \in {"pd_spawn", "pd_wait"} -> 3
      [] at = "pd_closed" -> 4
      [] at = "pd_parse" -> 5
      [] at = "done" -> 6
      [] OTHER -> 7
PostTasks == {i \in TaskIds : tasks[i].fn = "post"}
PageTasks == {i \in TaskIds : tasks[i].fn = "page"}

\* C20: the run never goes back to an earlier phase, whatever fails.  A
\* detail task exists only once every creator was listed, all page tasks
\* are gone and pf.PostIds is deduplicated; a response is parsed into
\* targets only once every detail task has made its request and finished.
C20_PhasesInOrder ==
    /\ [](/\ PostTasks # {} =>
                /\ PhaseOf(pc) >= 3
                /\ PageTasks = {}
                /\ progress.gcp.stopped
                /\ progress.gcp.count = Len(CreatorIds)
                /\ NoDuplicates(PostIds)
          /\ PageTasks # {} => PhaseOf(pc) = 1
          /\ PhaseOf(pc) <= 2 =>
                (~progress.req.started /\ pd = PdLocals /\ errChan = NoChan)
          /\ (progress.json.started \/ pd.urlsMap # <<>> \/ pd.gdriveUrls # <<>>
                \/ pd.errSlice # <<>>) =>
                /\ PhaseOf(pc) >= 5
                /\ Len(tasks) = Len(PostIds)
                /\ \A i \in TaskIds : tasks[i].pc = "done" /\ tasks[i].requests = 1
                /\ progress.req.stopped)
    /\ [][PhaseOf(pc') >= PhaseOf(pc)]_vars

\* aggregation under way after one of three detail requests failed: the
\* first response is parsed, no task is left running
C20_Witness ==
    /\ pc = "pd_parse" /\ Len(tasks) = 3 /\ AllDone
    /\ Cardinality(TasksWith({"non200"})) = 1
    /\ progress.json.total = 2 /\ progress.json.count = 1
    /\ progress.gcp.stopped /\ progress.req.stopped

\* the errors of a sequence that carry error class code
OfClass(errs, code) == {k \in 1..Len(errs) : errs[k].code = code}

\* C22 as stated: every recorded per-item error carries the class of its
\* cause: CONNECTION_ERROR for a transport failure, RESPONSE_ERROR for a
\* non-200 response, JSON_ERROR for a JSON failure, in the detail phase
\* (the errors of errChan) and in the list phase (the errors of resChan).
C22_Original ==
    /\ pc = "pd_closed" =>
          /\ Cardinality(OfClass(errChan.buf, CONNECTION_ERROR))
                = Cardinality(TasksWith({"connErr"}))
          /\ Cardinality(OfClass(errChan.buf, RESPONSE_ERROR))
                = Cardinality(TasksWith({"non200"}))
    /\ pc = "pd_parse" => \A k \in 1..Len(pd.errSlice) : pd.errSlice[k].code = JSON_ERROR
    /\ pc = "fp_parse" =>
          /\ \A k \in ErrMsgs : resChan.buf[k].err.code = JSON_ERROR
          /\ \A k \in 1..Len(fp.errSlice) : fp.errSlice[k].code = JSON_ERROR

\* C23 as stated: a progress reporter is stopped with hasErr exactly when
\* an item it covers failed: a post request for the request phase, a
\* response that does not parse for the JSON phase, a creator's listing or
\* any of its page requests for getCreatorsPosts.
C23_Original ==
    /\ progress.req.stopped =>
          (progress.req.hasErr <=> TasksWith({"connErr", "non200"}) # {})
    /\ progress.json.stopped => (progress.json.hasErr <=> pd.errSlice # <<>>)
    /\ (pc = "gcp_loop" /\ gcp.errSlice # <<>>) => ~progress.gcp.stopped
    /\ progress.gcp.stopped => (gcp.pageFailed => progress.gcp.hasErr)

\* the tasks that have sent their message, if their path sends one
PostTasksSent == {i \in TaskIds : tasks[i].pc \in {"sent", "exiting", "released", "done"}}
PageTasksSent ==
    {i \in TaskIds : tasks[i].pc \in {"exiting", "released", "done"}
                       /\ tasks[i].out.kind \in {"jsonErr", "ok"}}

\* C24: no task blocks on sending its result or error.  Each result and
\* error channel has room for one message of every task spawned, each task
\* sends at most one message, so a task about to send always finds room
\* and no buffer exceeds its capacity.
C24_SendsNeverBlock ==
    /\ Len(resChan.buf) <= resChan.cap /\ Len(errChan.buf) <= errChan.cap
    /\ InPool => Len(tasks) <= resChan.cap
    /\ InDetails => Len(tasks) <= errChan.cap
    /\ pc \in {"pd_spawn", "pd_wait", "pd_closed"} =>
          Len(resChan.buf) + Len(errChan.buf) = Cardinality(PostTasksSent)
    /\ pc \in {"fp_spawn", "fp_wait"} => Len(resChan.buf) = Cardinality(PageTasksSent)
    /\ \A i \in TaskIds :
          tasks[i].pc = "responded" =>
              /\ ~resChan.closed /\ Len(resChan.buf) < resChan.cap
              /\ tasks[i].fn = "post" => (~errChan.closed /\ Len(errChan.buf) < errChan.cap)

\* three post tasks have all sent a response: the result channel is full
\* and nobody had to wait for room
C24_Witness ==
    /\ pc = "pd_wait" /\ Len(tasks) = 3
    /\ Len(resChan.buf) = 3 /\ resChan.cap = 3
    /\ PostTasksSent = TaskIds

\* the number of distinct elements of a sequence
Distinct(s) == Cardinality({s[i] : i \in 1..Len(s)})
IsPrefix(s, t) == Len(s) <= Len(t) /\ SubSeq(t, 1, Len(s)) = s

PageNums(s) == [i \in 1..Len(s) |-> s[i].PageNum]

\* C26: RemoveDuplicateIdAndPageNum keeps IDs and pages aligned: for
\* equal-length inputs the two returned slices have equal length, the IDs are
\* duplicate-free in first-seen order, and the page at each output position
\* is the page paired with the first occurrence of that ID; and
\* KemonoDl.RemoveDuplicates keeps the page spec of the first occurrence of a
\* duplicated creator and drops the later ones.
C26_IdsAndPagesAligned ==
    /\ (pc = "idpage" /\ Len(calls) >= 2) =>
          /\ Len(calls[2].ids) = Len(calls[2].pages)
          /\ NoDuplicates(calls[2].ids)
          /\ IsFirstOccurrences(calls[1].ids, calls[2].ids, calls[1].ids)
          /\ IsFirstOccurrences(calls[1].pages, calls[2].pages, calls[1].ids)
    /\ (pc = "kemono" /\ Len(calls) >= 2) =>
          /\ NoDuplicates(CreatorKeys(calls[2].CreatorsToDl))
          /\ IsFirstOccurrences(PageNums(calls[1].CreatorsToDl),
                                PageNums(calls[2].CreatorsToDl),
                                CreatorKeys(calls[1].CreatorsToDl))

\* c1 was passed twice with different pages, between them c2 with the page
\* c1 had first: c1 keeps its first page and c2 its own
C26_Witness ==
    /\ pc = "idpage" /\ Len(calls) = 2
    /\ calls[1] = [ids |-> <<"c1", "c2", "c1">>, pages |-> <<<<"1">>, <<"1">>, <<"2">>>>]
    /\ slice = <<"c1", "c2">>
    /\ pageSlice = <<<<"1">>, <<"1">>>>

AllMatch(regex, s) == \A i \in 1..Len(s) : MatchString(regex, s[i])
\* the input of KemonoDl.ValidateArgs is valid
ValidKemonoInput(k) ==
    /\ Len(k.CreatorUrls) = Len(k.CreatorPageNums)
    /\ AllMatch(PAGE_NUM_REGEX, k.CreatorPageNums)
    /\ AllMatch(CREATOR_URL_REGEX, k.CreatorUrls)
    /\ AllMatch(POST_URL_REGEX, k.PostUrls)

\* C21: KemonoDl.ValidateArgs terminates the process on invalid input (the
\* counts of creator URLs and page numbers differ, a page number is
\* malformed, a creator or post URL does not match its pattern) before
\* ProcessCreatorUrls or ProcessPostUrls runs, so that these are reached only
\* with URLs that all match and slices of equal length, and never index out
\* of range.
C21_InvalidInputRejected ==
    /\ panic = "none" /\ pc # "panicked"
    /\ "CreatorUrls" \in DOMAIN calls[1] =>
          /\ pc \in {"kv_process", "kv_done"} => ValidKemonoInput(calls[1])
          /\ pc \in {"kv_process", "exited"} => kemono = calls[1]
          /\ pc = "exited" => ~ValidKemonoInput(calls[1])

\* the first post URL matches and the second is the URL of a creator: the
\* process has ended with nothing processed
C21_Witness ==
    /\ pc = "exited"
    /\ kemono.CreatorUrls = <<KemonoCreatorUrl(Patreon, <<"a", "1">>)>>
    /\ kemono.CreatorPageNums = <<<<"2">>>>
    /\ kemono.PostUrls = <<KemonoPostUrl(Patreon, <<"a", "1">>, <<"1">>),
                           KemonoCreatorUrl(Patreon, <<"a", "1">>)>>
    /\ kemono.CreatorsToDl = <<>> /\ kemono.PostsToDl = <<>>

Range(s) == {s[i] : i \in 1..Len(s)}
\* the URLs that the entries of CreatorsToDl and of PostsToDl stand for
UrlsOfCreators(s) ==
    [i \in 1..Len(s) |-> KemonoCreatorUrl(s[i].Service, s[i].CreatorId)]
UrlsOfPosts(s) ==
    [i \in 1..Len(s) |-> KemonoPostUrl(s[i].Service, s[i].CreatorId, s[i].PostId)]
\* every URL of urls is in out exactly once, and nothing else is
OnePerUrl(urls, out) ==
    /\ Len(out) = Cardinality(Range(urls))
    /\ \A url \in Range(urls) : Cardinality({i \in 1..Len(out) : out[i] = url}) = 1

\* C27: after KemonoDl.ValidateArgs returns, the raw inputs CreatorUrls,
\* CreatorPageNums and PostUrls are cleared whenever they were non-empty,
\* CreatorsToDl has one entry per distinct creator URL and PostsToDl one
\* entry per distinct post URL; after KemonoDlOptions.ValidateArgs returns,
\* SessionCookies is non-empty and DlGdrive is true only if GdriveClient is
\* set.
C27_ArgsAfterValidation ==
    /\ pc = "kv_done" =>
          /\ kemono.CreatorUrls = <<>>
          /\ kemono.CreatorPageNums = <<>>
          /\ kemono.PostUrls = <<>>
          /\ OnePerUrl(calls[1].CreatorUrls, UrlsOfCreators(kemono.CreatorsToDl))
          /\ OnePerUrl(calls[1].PostUrls, UrlsOfPosts(kemono.PostsToDl))
    /\ pc = "ko_done" =>
          /\ options.SessionCookies # <<>>
          /\ options.DlGdrive => options.GdriveClient # "nil"

\* a creator URL was passed twice and two post URLs once each: one creator
\* and two posts are left, and the raw inputs are empty
C27_Witness ==
    /\ pc = "kv_done"
    /\ calls[1].CreatorUrls = <<KemonoCreatorUrl(Patreon, <<"a", "1">>),
                                KemonoCreatorUrl(Patreon, <<"a", "1">>)>>
    /\ calls[1].CreatorPageNums = <<<<"2">>, <<>>>>
    /\ Len(calls[1].PostUrls) = 2
    /\ kemono.CreatorsToDl = <<KemonoCreatorToDl(Patreon, <<"a", "1">>, <<"2">>)>>
    /\ Len(kemono.PostsToDl) = 2
    /\ kemono.CreatorUrls = <<>> /\ kemono.CreatorPageNums = <<>> /\ kemono.PostUrls = <<>>

=============================================================================
